---- MODULE Spec2Model ----
(***************************************************************************)
(* Model of the TickTick MCP adapter (src/src/adapters/client.py), the     *)
(* task tools built on it (src/src/tools/tasks.py) and the display         *)
(* conversion of task times (src/src/utils/timezone_utils.py).             *)
(*                                                                         *)
(* The remote ticktick.py client is an external collaborator.  Its         *)
(* behaviour on every call (return a value or raise) is chosen by the      *)
(* environment; what the adapter does with each outcome is the code's.     *)
(*                                                                         *)
(* These specifications share the state:                                   *)
(*   Spec        delete_task (adapter and tool) and complete_task          *)
(*   SpecUpdate  get_tasks and update_task                                 *)
(*   SpecCreate  get_tasks and create_task                                 *)
(*   SpecWrites  every write operation, projects included                  *)
(*   SpecRead    the list, search and filter operations                    *)
(*   SpecTime    the functions of timezone_utils on their own              *)
(*   SpecAuth    login, logout and the server's guarded tools              *)
(*   SpecConcUpdate  update_task of two callers, one client call a step    *)
(*   SpecConcDelete  delete_task of two callers, one client call a step    *)
(***************************************************************************)
EXTENDS Integers, Sequences, FiniteSets, TLC

VARIABLES
    cache,      \* client.state["tasks"]: task id -> cached task dict
    remote,     \* task id -> the record the provider last returned for it
    sysOffset,  \* UTC offset (hours) of the host's local zone
    nreads,     \* list operations performed so far
    nwrites,    \* write operations performed so far
    projects,   \* client.state["projects"]: the names of the projects
    session,    \* credentials file, process environment, adapter singleton
    procs,      \* the adapter calls in progress, one record per caller
    last        \* observation of the most recent operation

vars == <<cache, remote, sysOffset, nreads, nwrites, projects, session, procs, last>>

-----------------------------------------------------------------------------
(* Bounds of the model *)

NumTasks == 1       \* task ids are 1..NumTasks
MaxReads == 1       \* list operations in one run
MaxWrites == 1      \* write operations in one run

TaskIds == 1..NumTasks

-----------------------------------------------------------------------------
(* Python values *)

NONE == "<None>"            \* Python None for an optional string argument
NoPriority == 0 - 1         \* Python None for the optional priority argument

\* Python truthiness of an optional string: None and "" are falsy
Truthy(s) == s # NONE /\ s # ""

-----------------------------------------------------------------------------
(* Time strings.  A time string is modelled by its parts:                  *)
(*   kind  "none" (key absent), "bad" (not ISO-8601) or "ts" (parsable)    *)
(*   d, h  calendar day and hour written in the string                     *)
(*   ms    whether it carries ".000"                                       *)
(*   sfx   its suffix: "Z", "+0000", "+00:00", "+08:00" or "" (naive)      *)

NoDate == [kind |-> "none", d |-> 0, h |-> 0, ms |-> FALSE, sfx |-> ""]
BadDate(sfx) == [kind |-> "bad", d |-> 0, h |-> 0, ms |-> FALSE, sfx |-> sfx]
TimeStr(d, h, ms, sfx) == [kind |-> "ts", d |-> d, h |-> h, ms |-> ms, sfx |-> sfx]

\* the offset (hours) a suffix denotes
SuffixOffset(sfx) == IF sfx = "+08:00" THEN 8 ELSE 0

\* pytz.timezone(name): the zones the model knows, with their UTC offset
KnownZones == {"Asia/Shanghai", "UTC"}
ZoneOffset(z) == IF z = "Asia/Shanghai" THEN 8 ELSE 0

\* timezone_str and timezone_str.strip()
ZoneGiven(z) == z # "" /\ z # " "

\* hours since day 0, 00:00 <-> (day, hour)
Hours(d, h) == d * 24 + h
DayOf(t) == t \div 24
HourOf(t) == t % 24

\* the trailing "Z" / "+0000" rewritten to "+00:00" (lines 30-33)
NormalizeSuffix(s) ==
    IF s.sfx \in {"Z", "+0000"} THEN [s EXCEPT !.sfx = "+00:00"] ELSE s

\* datetime.astimezone(tz) of the parsed string s, as hours since day 0:
\* an aware value keeps its instant, a naive one is taken as host-local time
LocalHours(s, off, sys) ==
    IF s.sfx = "" THEN Hours(s.d, s.h) - sys + off
    ELSE Hours(s.d, s.h) - SuffixOffset(s.sfx) + off

COMPLETED_STATUS == 2

\* the last day a datetime can hold (9999-12-31); day 0 is the first
LastDay == 9

\* astimezone raises OverflowError when the local time leaves that range
InRange(t) == 0 <= t /\ DayOf(t) <= LastDay

\* an exception that the function's "except" clauses do not catch
Raised == [kind |-> "raise", d |-> 0, h |-> 0, ms |-> FALSE, sfx |-> "OverflowError"]

\* as convert_utc_to_local_time, with an unknown zone treated as no zone
convert_utc_to_local_time_unknown_as_utc(utc_time_str, timezone_str, sys) ==
    LET n == NormalizeSuffix(utc_time_str)
    IN  IF n.kind # "ts" THEN n
        ELSE IF ZoneGiven(timezone_str) /\ timezone_str \in KnownZones
             THEN LET t == LocalHours(n, ZoneOffset(timezone_str), sys)
                  IN  IF InRange(t) THEN TimeStr(DayOf(t), HourOf(t), FALSE, "")
                      ELSE Raised
             ELSE TimeStr(n.d, n.h, FALSE, "")

\* as convert_utc_to_local_time, with the string as it was passed returned
\* on failure, not the one reassigned in lines 30-33
convert_utc_to_local_time_returns_original(utc_time_str, timezone_str, sys) ==
    LET n == NormalizeSuffix(utc_time_str)
    IN  IF n.kind # "ts" THEN utc_time_str
        ELSE IF ZoneGiven(timezone_str)
             THEN IF timezone_str \notin KnownZones THEN utc_time_str
                  ELSE LET t == LocalHours(n, ZoneOffset(timezone_str), sys)
                       IN  IF InRange(t) THEN TimeStr(DayOf(t), HourOf(t), FALSE, "")
                           ELSE Raised
             ELSE TimeStr(n.d, n.h, FALSE, "")

convert_utc_to_local_time(utc_time_str, timezone_str, sys) ==
    LET n == NormalizeSuffix(utc_time_str)
    IN  IF n.kind # "ts" THEN n                       \* fromisoformat raises
        ELSE IF ZoneGiven(timezone_str)
             THEN IF timezone_str \notin KnownZones THEN n   \* UnknownTimeZoneError
                  ELSE LET t == LocalHours(n, ZoneOffset(timezone_str), sys)
                       IN  IF InRange(t) THEN TimeStr(DayOf(t), HourOf(t), FALSE, "")
                           ELSE Raised
             ELSE TimeStr(n.d, n.h, FALSE, "")

\* the time fields in the order convert_task_times_to_local assigns them
TimeFields == <<"startDate", "dueDate", "modifiedTime", "createdTime">>

\* what the call assigns to a field: nothing when task.get(field) is falsy
ConvertedField(task, f, sys) ==
    IF task[f].kind = "none" THEN task[f]
    ELSE convert_utc_to_local_time(task[f], task.timeZone, sys)

\* the call does not return: the exception of a field leaves the function
ConversionRaises(task, sys) ==
    \E k \in DOMAIN TimeFields : ConvertedField(task, TimeFields[k], sys) = Raised

RECURSIVE ConvertFrom(_, _, _)
ConvertFrom(task, k, sys) ==
    IF k > Len(TimeFields) THEN task
    ELSE LET f == TimeFields[k]
             y == ConvertedField(task, f, sys)
         IN  IF y = Raised THEN task
             ELSE ConvertFrom([task EXCEPT ![f] = y], k + 1, sys)

\* the dict after the call: every field assigned in place, up to the first
\* one whose conversion raises
convert_task_times_to_local(task, sys) == ConvertFrom(task, 1, sys)

\* datetime.now(...) as hours since day 0, UTC
Nows == {Hours(1, 17), Hours(2, 1), Hours(2, 17)}

get_user_today(user_timezone, now) ==
    IF ZoneGiven(user_timezone) /\ user_timezone \in KnownZones
    THEN DayOf(now + ZoneOffset(user_timezone))
    ELSE DayOf(now)                    \* no zone, or UnknownTimeZoneError

\* None (NoDate) for a falsy or unparsable string, else the parsed datetime
parse_task_date(date_str) ==
    LET n == NormalizeSuffix(date_str)
    IN  IF n.kind = "ts" THEN n ELSE NoDate

\* the date compared with the user's today (lines 198-206 and 244-252):
\* hours since day 0 of the instant in the user's zone, or of the wall-clock
\* time written in the string when the zone is empty or unknown
TaskLocalHours(task_datetime, user_timezone, sys) ==
    IF ZoneGiven(user_timezone) /\ user_timezone \in KnownZones
    THEN LocalHours(task_datetime, ZoneOffset(user_timezone), sys)
    ELSE Hours(task_datetime.d, task_datetime.h)

\* is_task_due_today falling back on the task's own zone when the user has none
is_task_due_today_task_zone(task, user_timezone, now, sys) ==
    LET task_datetime == parse_task_date(task.dueDate)
        zone == IF ZoneGiven(user_timezone) THEN user_timezone ELSE task.timeZone
        t == TaskLocalHours(task_datetime, zone, sys)
    IN  IF task.dueDate.kind = "none" THEN "False"
        ELSE IF task_datetime = NoDate THEN "False"
        ELSE IF ~InRange(t) THEN "Raise"
        ELSE IF DayOf(t) = get_user_today(zone, now) THEN "True"
        ELSE "False"

\* is_task_due_today counting the day after the due date as well
is_task_due_today_or_yesterday(task, user_timezone, now, sys) ==
    LET task_datetime == parse_task_date(task.dueDate)
        t == TaskLocalHours(task_datetime, user_timezone, sys)
    IN  IF task.dueDate.kind = "none" THEN "False"
        ELSE IF task_datetime = NoDate THEN "False"
        ELSE IF ~InRange(t) THEN "Raise"
        ELSE IF DayOf(t) \in {get_user_today(user_timezone, now),
                              get_user_today(user_timezone, now) - 1} THEN "True"
        ELSE "False"

\* "True", "False", or "Raise" when astimezone overflows
is_task_due_today(task, user_timezone, now, sys) ==
    LET task_datetime == parse_task_date(task.dueDate)
        t == TaskLocalHours(task_datetime, user_timezone, sys)
    IN  IF task.dueDate.kind = "none" THEN "False"
        ELSE IF task_datetime = NoDate THEN "False"
        ELSE IF ~InRange(t) THEN "Raise"
        ELSE IF DayOf(t) = get_user_today(user_timezone, now) THEN "True"
        ELSE "False"

\* is_task_overdue without the test of the status
is_task_overdue_any_status(task, user_timezone, now, sys) ==
    LET task_datetime == parse_task_date(task.dueDate)
        t == TaskLocalHours(task_datetime, user_timezone, sys)
    IN  IF task.dueDate.kind = "none" THEN "False"
        ELSE IF task_datetime = NoDate THEN "False"
        ELSE IF ~InRange(t) THEN "Raise"
        ELSE IF DayOf(t) < get_user_today(user_timezone, now) THEN "True"
        ELSE "False"

is_task_overdue(task, user_timezone, now, sys) ==
    LET task_datetime == parse_task_date(task.dueDate)
        t == TaskLocalHours(task_datetime, user_timezone, sys)
    IN  IF task.dueDate.kind = "none" THEN "False"
        ELSE IF task.status = COMPLETED_STATUS THEN "False"
        ELSE IF task_datetime = NoDate THEN "False"
        ELSE IF ~InRange(t) THEN "Raise"
        ELSE IF DayOf(t) < get_user_today(user_timezone, now) THEN "True"
        ELSE "False"

-----------------------------------------------------------------------------
(* Task records and the remote client *)

\* the empty dict {} that get_by_id may return
EmptyTask == [id |-> 0]

\* tasks as the provider returns them: UTC strings with milliseconds
ServerTime(d, h) == TimeStr(d, h, TRUE, "+0000")

SampleTask(i, v) ==
    [id |-> i,
     title |-> "T1",
     content |-> IF v = 1 THEN "C1" ELSE NONE,
     priority |-> IF v = 1 THEN 3 ELSE 0,
     projectId |-> "p1",
     status |-> IF v = 2 THEN COMPLETED_STATUS ELSE 0,
     startDate |-> IF v = 1 THEN ServerTime(1, 16) ELSE NoDate,
     dueDate |-> IF v = 1 THEN ServerTime(1, 18)
                 ELSE IF v = 2 THEN TimeStr(1, 16, FALSE, "Z")
                 ELSE IF v = 3 THEN ServerTime(LastDay, 23)
                 ELSE BadDate("Z"),
     modifiedTime |-> ServerTime(1, 9),
     createdTime |-> ServerTime(1, 9),
     timeZone |-> IF v \in {1, 3} THEN "Asia/Shanghai" ELSE ""]

Variants == {1, 2}

\* the same, and a task due in the last hour of the last day and a task
\* whose due date is not a date
ReadVariants == {1, 2, 3, 4}

\* one call on the remote client: the function, the form of its argument
\* ("id", "obj" or "-") and how it ended
Call(fn, form, out) == [fn |-> fn, form |-> form, out |-> out]

FetchOutcomes == {"task", "empty", "none", "raise"}
CallOutcomes == {"ok", "raise"}

\* what _ensure_client does: it returns the client ("ok"), returns None
\* because nobody is logged in ("none"), or raises out of _initialize_client
ClientStates == {"ok", "none", "raise"}

\* not <value returned by get_by_id>
FetchFalsy(out) == out \in {"none", "empty"}

Remove(f, i) == [j \in DOMAIN f \ {i} |-> f[j]]

\* a successful client.task.delete drops the task remotely and locally
ClientDelete(st, i) == [cache |-> Remove(st.cache, i), remote |-> Remove(st.remote, i)]

\* a successful client.sync() replaces the local snapshot by the remote state
ClientSync(st) == [cache |-> st.remote, remote |-> st.remote]

RECURSIVE ClientEffects(_, _, _)
ClientEffects(calls, i, st) ==
    IF calls = <<>> THEN st
    ELSE LET c == Head(calls)
             nx == IF c.out # "ok" THEN st
                   ELSE IF c.fn = "delete" THEN ClientDelete(st, i)
                   ELSE IF c.fn = "sync" THEN ClientSync(st)
                   ELSE st
         IN  ClientEffects(Tail(calls), i, nx)

-----------------------------------------------------------------------------
(* TickTickAdapter.delete_task.  o gives the outcome of each client call   *)
(* the method may make: pre (pre-fetch), d1 (delete by id), hasSync,       *)
(* sy (sync), re (re-fetch), d2 (delete by object).                        *)

\* Outcomes of calls that cannot be consulted are fixed, so that two oracles
\* differ only where a run can tell them apart: there is no sync outcome
\* without a sync method, no object to delete without a fetched object, and
\* nothing after a pre-fetch that found nothing or a delete that succeeded.
DeleteOracles ==
    {o \in [pre : FetchOutcomes, d1 : CallOutcomes, hasSync : BOOLEAN,
            sy : CallOutcomes, re : FetchOutcomes, d2 : CallOutcomes] :
        /\ (~o.hasSync => o.sy = "ok")
        /\ (o.re \in {"none", "raise"} => o.d2 = "ok")
        /\ (o.d1 = "ok" => ~o.hasSync /\ o.re = "none")
        /\ (o.pre \in {"none", "empty"} => o.d1 = "ok")}

\* delete_fallback with a failed resync aborting the fallback
delete_fallback_sync_aborts(o) ==
    LET sync == IF o.hasSync THEN <<Call("sync", "-", o.sy)>> ELSE <<>>
        fetch == <<Call("get_by_id", "id", o.re)>>
    IN  IF o.hasSync /\ o.sy = "raise" THEN [calls |-> sync, result |-> "Error"]
        ELSE IF o.re \in {"raise", "none"} THEN [calls |-> sync \o fetch, result |-> "True"]
        ELSE [calls |-> sync \o fetch \o <<Call("delete", "obj", o.d2)>>,
              result |-> IF o.d2 = "ok" THEN "True" ELSE "Error"]

\* delete_fallback with a failed delete by object tried once more by id
delete_fallback_third_attempt(o) ==
    LET sync == IF o.hasSync THEN <<Call("sync", "-", o.sy)>> ELSE <<>>
        fetch == <<Call("get_by_id", "id", o.re)>>
    IN  IF o.re \in {"raise", "none"} THEN [calls |-> sync \o fetch, result |-> "True"]
        ELSE IF o.d2 = "ok"
        THEN [calls |-> sync \o fetch \o <<Call("delete", "obj", "ok")>>, result |-> "True"]
        ELSE [calls |-> sync \o fetch \o <<Call("delete", "obj", "raise"),
                                            Call("delete", "id", "raise")>>,
              result |-> "Error"]

\* the fallback after a failed delete by id (lines 400-441)
delete_fallback(o) ==
    LET sync == IF o.hasSync THEN <<Call("sync", "-", o.sy)>> ELSE <<>>
        fetch == <<Call("get_by_id", "id", o.re)>>
    IN  IF o.re = "raise" THEN [calls |-> sync \o fetch, result |-> "True"]
        ELSE IF o.re = "none" THEN [calls |-> sync \o fetch, result |-> "True"]
        ELSE [calls |-> sync \o fetch \o <<Call("delete", "obj", o.d2)>>,
              result |-> IF o.d2 = "ok" THEN "True" ELSE "Error"]

\* the primary path: delete by id (lines 393-448)
delete_primary(o) ==
    IF o.d1 = "ok"
    THEN [calls |-> <<Call("delete", "id", "ok")>>, result |-> "True"]
    ELSE LET f == delete_fallback(o)
         IN  [calls |-> <<Call("delete", "id", "raise")>> \o f.calls,
              result |-> f.result]

\* delete_task with a pre-fetch that found nothing still deleting by id
delete_task_ignores_prefetch(project_id, o) ==
    IF ~Truthy(project_id)
    THEN LET p == delete_primary(o)
         IN  [calls |-> <<Call("get_by_id", "id", o.pre)>> \o p.calls, result |-> p.result]
    ELSE delete_primary(o)

\* delete_task with the pre-fetch made whether or not a project id is passed
delete_task_always_prefetches(project_id, o) ==
    LET pre == <<Call("get_by_id", "id", o.pre)>>
    IN  IF FetchFalsy(o.pre) THEN [calls |-> pre, result |-> "True"]
        ELSE LET p == delete_primary(o)
             IN  [calls |-> pre \o p.calls, result |-> p.result]

delete_task(project_id, o) ==
    IF ~Truthy(project_id)
    THEN LET pre == <<Call("get_by_id", "id", o.pre)>>
         IN  IF FetchFalsy(o.pre) THEN [calls |-> pre, result |-> "True"]
             ELSE LET p == delete_primary(o)
                  IN  [calls |-> pre \o p.calls, result |-> p.result]
    ELSE delete_primary(o)

ProjectIdArgs == {NONE, "", "p1"}

\* with self.client None every attribute access on it raises AttributeError,
\* hasattr(client, "sync") is False
NoClientOracle ==
    [pre |-> "raise", d1 |-> "raise", hasSync |-> FALSE, sy |-> "ok", re |-> "raise", d2 |-> "ok"]

\* _ensure_client() raising, outside every try block: no call is made
EnsureClientRaised == [calls |-> <<>>, result |-> "Error"]

\* get_by_id can only hand out a task the snapshot holds
FetchPossible(out, i) == out = "task" => i \in DOMAIN cache

NoTask == EmptyTask

Observe(op, args, calls, result, fetched, written) ==
    [op |-> op, args |-> args, calls |-> calls, result |-> result,
     fetched |-> fetched, written |-> written]

\* The session: creds is the user of ~/.ticktick-mcp/credentials.json (NONE
\* without the file), environ the user of TICKTICK_USERNAME/_PASSWORD in the
\* process environment, adapter the client held by the get_client()
\* singleton: "absent" before the first get_client(), "none" for an adapter
\* whose client is None, else the user the client was built for.  The other
\* fields record the history of the auth tools: loggedOut after an
\* auth_logout that succeeded and until the next auth_login, outUser the
\* user that logout removed, relogged after an auth_login as another user
\* that followed such a logout, loginUser the user of that login.
NoSession ==
    [creds |-> NONE, environ |-> NONE, adapter |-> "absent",
     loggedOut |-> FALSE, outUser |-> NONE, relogged |-> FALSE, loginUser |-> NONE]

\* the state of the remote client after the calls of one operation on task i
AfterCalls(calls, i) == ClientEffects(calls, i, [cache |-> cache, remote |-> remote])

AdapterDeleteTask ==
    /\ nwrites < MaxWrites
    /\ nwrites' = nwrites + 1
    /\ \E pid \in ProjectIdArgs, tid \in TaskIds, cl \in ClientStates, o \in DeleteOracles :
        /\ (cl # "ok" => o = NoClientOracle)
        /\ FetchPossible(o.pre, tid) /\ FetchPossible(o.re, tid)
        /\ LET r == IF cl = "raise" THEN EnsureClientRaised ELSE delete_task(pid, o)
           IN  /\ last' = Observe("delete_task", [project_id |-> pid, task_id |-> tid],
                                  r.calls, r.result, NoTask, NoTask) @@ [client |-> cl]
               /\ cache' = AfterCalls(r.calls, tid).cache
               /\ remote' = AfterCalls(r.calls, tid).remote
        /\ UNCHANGED <<sysOffset, nreads, projects, session, procs>>

\* tools.tasks.delete_task: the adapter's delete_task without a project id;
\* an exception is re-raised as RuntimeError
tools_delete_task(o) == delete_task(NONE, o)

ToolDeleteTask ==
    /\ nwrites < MaxWrites
    /\ nwrites' = nwrites + 1
    /\ \E tid \in TaskIds, cl \in ClientStates, o \in DeleteOracles :
        /\ (cl # "ok" => o = NoClientOracle)
        /\ FetchPossible(o.pre, tid) /\ FetchPossible(o.re, tid)
        /\ LET r == IF cl = "raise" THEN EnsureClientRaised ELSE tools_delete_task(o)
           IN  /\ last' = Observe("tools.delete_task", [project_id |-> NONE, task_id |-> tid],
                                  r.calls, r.result, NoTask, NoTask) @@ [client |-> cl]
               /\ cache' = AfterCalls(r.calls, tid).cache
               /\ remote' = AfterCalls(r.calls, tid).remote
        /\ UNCHANGED <<sysOffset, nreads, projects, session, procs>>

-----------------------------------------------------------------------------
(* TickTickAdapter.complete_task.  f is the outcome of get_by_id, c that   *)
(* of client.task.complete, task the cached record get_by_id hands out.    *)

\* complete_task testing "task is None" instead of "not task"
complete_task_none_only(task, f, c) ==
    LET fetch == <<Call("get_by_id", "id", f)>>
    IN  IF f = "raise" THEN [calls |-> fetch, result |-> "Error", passed |-> NoTask]
        ELSE IF f = "none" THEN [calls |-> fetch, result |-> "NotFound", passed |-> NoTask]
        ELSE [calls |-> fetch \o <<Call("complete", "obj", c)>>,
              result |-> IF c = "ok" THEN "True" ELSE "Error",
              passed |-> task]

complete_task(task, f, c) ==
    LET fetch == <<Call("get_by_id", "id", f)>>
    IN  IF f = "raise" THEN [calls |-> fetch, result |-> "Error", passed |-> NoTask]
        ELSE IF FetchFalsy(f) THEN [calls |-> fetch, result |-> "NotFound", passed |-> NoTask]
        ELSE [calls |-> fetch \o <<Call("complete", "obj", c)>>,
              result |-> IF c = "ok" THEN "True" ELSE "Error",
              passed |-> task]

\* what get_by_id returns: the cached dict itself, {} or None
Fetched(f, i) == IF f = "task" THEN cache[i] ELSE NoTask

\* a successful client.task.complete marks the task completed
ClientComplete(f, i) == [f EXCEPT ![i].status = COMPLETED_STATUS]

CompleteTask ==
    /\ nwrites < MaxWrites
    /\ nwrites' = nwrites + 1
    /\ \E tid \in TaskIds, cl \in ClientStates, f \in FetchOutcomes, c \in CallOutcomes :
        /\ (cl # "ok" => f = "raise")
        /\ FetchPossible(f, tid)
        /\ (f # "task" => c = "ok")
        /\ LET r == IF cl = "raise"
                    THEN EnsureClientRaised @@ [passed |-> NoTask]
                    ELSE complete_task(Fetched(f, tid), f, c)
           IN  /\ last' = Observe("complete_task", [task_id |-> tid],
                                  r.calls, r.result, Fetched(f, tid), r.passed)
                            @@ [client |-> cl]
               /\ IF r.result = "True"
                  THEN cache' = ClientComplete(cache, tid) /\ remote' = ClientComplete(remote, tid)
                  ELSE UNCHANGED <<cache, remote>>
        /\ UNCHANGED <<sysOffset, nreads, projects, session, procs>>

Init ==
    /\ \E f \in [TaskIds -> Variants] :
          /\ remote = [i \in TaskIds |-> SampleTask(i, f[i])]
          /\ cache = remote
    /\ sysOffset \in {0, 8}
    /\ nreads = 0
    /\ nwrites = 0
    /\ projects = {"p1"}
    /\ session = NoSession
    /\ procs = <<>>
    /\ last = Observe("init", [task_id |-> 0], <<>>, "-", NoTask, NoTask) @@ [client |-> "ok"]

Next ==
    \/ AdapterDeleteTask
    \/ ToolDeleteTask
    \/ CompleteTask

Spec == Init /\ [][Next]_vars

-----------------------------------------------------------------------------
(* tools.tasks.get_tasks: the adapter's list, converted for display.  The  *)
(* adapter filters client.state["tasks"] into a new list of the same dict  *)
(* objects, and convert_task_times_to_local assigns into each of them.     *)

\* ids of the tasks TickTickAdapter.get_tasks returns
get_tasks(include_completed) ==
    {i \in DOMAIN cache : include_completed \/ cache[i].status # COMPLETED_STATUS}

\* the first listed task whose conversion raises, 0 when none does
FirstRaising(ids) ==
    LET bad == {i \in ids : ConversionRaises(cache[i], sysOffset)}
    IN  IF bad = {} THEN 0 ELSE CHOOSE i \in bad : \A j \in bad : i <= j

\* the snapshot after convert_tasks_times_to_local ran over the listed
\* tasks, in list order, up to the first exception
convert_tasks_times_to_local(ids) ==
    LET r == FirstRaising(ids)
    IN  [i \in DOMAIN cache |->
            IF i \in ids /\ (r = 0 \/ i <= r)
            THEN convert_task_times_to_local(cache[i], sysOffset)
            ELSE cache[i]]

\* One list tool.  listed: the ids the adapter method collects; failed: an
\* exception inside the adapter method, which then returns []; guarded: the
\* tool converts inside its try block.  The observation keeps the adapter's
\* list, the tool's list and whether anything failed on the way.
ReadTool(op, args, cl, listed, failed, guarded) ==
    LET adapter == IF cl = "ok" /\ ~failed THEN listed ELSE {}
        raises == FirstRaising(adapter) # 0
    IN  /\ cache' = convert_tasks_times_to_local(adapter)
        /\ last' = Observe(op, args, <<>>,
                           IF raises /\ ~guarded THEN "raise" ELSE "list", NoTask, NoTask)
                     @@ [client |-> cl,
                         adapter |-> adapter,
                         ids |-> IF raises THEN {} ELSE adapter,
                         failed |-> (cl # "ok" \/ failed \/ raises)]

GetTasksWith(clients) ==
    /\ nreads < MaxReads
    /\ nreads' = nreads + 1
    /\ \E include_completed \in BOOLEAN, cl \in clients :
          ReadTool("get_tasks", [include_completed |-> include_completed], cl,
                   get_tasks(include_completed), FALSE, FALSE)
    /\ UNCHANGED <<remote, sysOffset, nwrites, projects, session, procs>>

\* a listing with the client in place
GetTasks == GetTasksWith({"ok"})

-----------------------------------------------------------------------------
(* Updates.  f is the outcome of get_by_id, u that of client.task.update.  *)

\* datetime.fromisoformat(arg.replace(' ', 'T')) under "except ValueError":
\* None for an absent or unparsable argument (tools/tasks.py lines 137-150)
parse_date_arg(x) == IF x.kind = "ts" THEN x ELSE NoDate

\* ticktick.py's date encoder: the wall-clock time dt of zone tz as a UTC
\* string "YYYY-MM-DDTHH:MM:SS+0000"
convert_date_to_tick_tick_format(dt, tz) ==
    LET t == Hours(dt.d, dt.h) - ZoneOffset(tz)
    IN  TimeStr(DayOf(t), HourOf(t), FALSE, "+0000")

\* adapter.get_user_timezone() with the tools' fallback (lines 152-156)
user_timezone(uz) == IF uz # "" THEN uz ELSE "Asia/Shanghai"

\* fetch_then_update with a task that is not found skipped without an error
fetch_then_update_silent(f, u, task) ==
    LET fetch == <<Call("get_by_id", "id", f)>>
    IN  IF f = "raise" THEN [calls |-> fetch, result |-> "Error", written |-> NoTask]
        ELSE IF FetchFalsy(f) THEN [calls |-> fetch, result |-> "ok", written |-> NoTask]
        ELSE [calls |-> fetch \o <<Call("update", "obj", u)>>,
              result |-> IF u = "ok" THEN "ok" ELSE "Error",
              written |-> task]

\* fetch, then write: the skeleton shared by both update methods
fetch_then_update(f, u, task) ==
    LET fetch == <<Call("get_by_id", "id", f)>>
    IN  IF f = "raise" THEN [calls |-> fetch, result |-> "Error", written |-> NoTask]
        ELSE IF FetchFalsy(f) THEN [calls |-> fetch, result |-> "NotFound", written |-> NoTask]
        ELSE [calls |-> fetch \o <<Call("update", "obj", u)>>,
              result |-> IF u = "ok" THEN "ok" ELSE "Error",
              written |-> task]

\* TickTickAdapter.update_task: task.update(kwargs), kwargs holding the keys
\* whose value in kw is not NONE / NoPriority
update_task(task, f, u, project_id, kw) ==
    fetch_then_update(f, u,
        [task EXCEPT !.title = IF kw.title # NONE THEN kw.title ELSE @,
                     !.content = IF kw.content # NONE THEN kw.content ELSE @,
                     !.priority = IF kw.priority # NoPriority THEN kw.priority ELSE @,
                     !.projectId = IF project_id # NONE THEN project_id ELSE @])

\* TickTickAdapter.update_task_with_dates
update_task_with_dates(task, f, u, project_id, title, content, start_date, due_date, priority, timezone) ==
    LET basic ==
            [task EXCEPT !.title = IF Truthy(title) THEN title ELSE @,
                         !.content = IF Truthy(content) THEN content ELSE @,
                         !.priority = IF priority # NoPriority THEN priority ELSE @,
                         !.projectId = IF project_id # NONE THEN project_id ELSE @]
        dated ==
            [basic EXCEPT
                !.startDate = IF start_date.kind = "ts"
                              THEN convert_date_to_tick_tick_format(start_date, timezone)
                              ELSE @,
                !.dueDate = IF due_date.kind = "ts"
                            THEN convert_date_to_tick_tick_format(due_date, timezone)
                            ELSE @,
                !.timeZone = IF Truthy(timezone) THEN timezone ELSE @]
    IN  fetch_then_update(f, u,
            IF start_date.kind = "ts" \/ due_date.kind = "ts" THEN dated ELSE basic)

\* tools.tasks.update_task; a holds the caller's arguments
DatesSupplied(a) == a.start_date.kind # "none" \/ a.due_date.kind # "none"

tools_update_task(task, f, u, uz, a) ==
    IF DatesSupplied(a)
    THEN [path |-> "update_task_with_dates"] @@
         update_task_with_dates(task, f, u, a.project_id, a.title, a.content,
                                parse_date_arg(a.start_date), parse_date_arg(a.due_date),
                                a.priority, user_timezone(uz))
    ELSE [path |-> "update_task"] @@
         update_task(task, f, u, a.project_id,
                     [title |-> a.title, content |-> a.content, priority |-> a.priority])

DateArgs == {NoDate, BadDate(""), TimeStr(2, 10, FALSE, "")}

UpdateArgs ==
    [task_id : TaskIds, project_id : {NONE, "p2"}, title : {NONE, ""},
     content : {NONE, "", "C2"}, priority : {NoPriority, 0},
     start_date : DateArgs, due_date : DateArgs]

\* client.time_zone as the account may have it
AccountZones == {"", "UTC"}

\* some field other than a date is passed
BasicSupplied(a) ==
    a.project_id # NONE \/ a.title # NONE \/ a.content # NONE \/ a.priority # NoPriority

\* The calls explored.  The handlers treat the plain fields, the dates and
\* the outcome of the fetch independently of each other, so the combinations
\* are thinned: every combination of plain fields goes with no date and with
\* a due date alone; every combination of dates and account zone goes with
\* no plain field; a fetch that hands out no task, a failing write, a
\* missing client and every write after the first of a run (n > 0) go with
\* calls that pass no plain field; a write after the first passes no start
\* date either and meets an account without zone.
UpdateArgsExplored(a, n) == n > 0 => ~BasicSupplied(a) /\ a.start_date = NoDate

UpdateExplored(a, f, u, uz, cl, n) ==
    /\ (cl # "ok" => f = "raise")
    /\ UpdateArgsExplored(a, n)
    /\ (n > 0 => uz = "")
    /\ (f # "task" => u = "ok")
    /\ (~DatesSupplied(a) => uz = "")
    /\ (BasicSupplied(a) => u = "ok")
    /\ (BasicSupplied(a) /\ DatesSupplied(a) =>
            a.start_date = NoDate /\ a.due_date.kind = "ts" /\ uz = "")
    /\ (f # "task" =>
            /\ ~BasicSupplied(a)
            /\ a.start_date = NoDate /\ a.due_date.kind # "bad"
            /\ uz = "")

UpdateTaskOver(args, clients) ==
    /\ nwrites < MaxWrites
    /\ nwrites' = nwrites + 1
    /\ \E a \in {x \in args : UpdateArgsExplored(x, nwrites)}, cl \in clients,
          f \in FetchOutcomes, u \in CallOutcomes, uz \in AccountZones :
        /\ UpdateExplored(a, f, u, uz, cl, nwrites)
        /\ FetchPossible(f, a.task_id)
        /\ LET tid == a.task_id
               t == tools_update_task(Fetched(f, tid), f, u, uz, a)
               r == IF cl = "raise" THEN EnsureClientRaised @@ t ELSE t
           IN  /\ last' = Observe("update_task", a, r.calls, r.result, Fetched(f, tid), r.written)
                            @@ [client |-> cl,
                                path |-> r.path,
                                before |-> IF tid \in DOMAIN remote THEN remote[tid] ELSE NoTask,
                                zone |-> user_timezone(uz)]
               \* the fetched dict is the cached one: it is modified before the write
               /\ cache' = IF f = "task" THEN [cache EXCEPT ![tid] = r.written] ELSE cache
               /\ remote' = IF r.result = "ok" THEN [remote EXCEPT ![tid] = r.written] ELSE remote
    /\ UNCHANGED <<sysOffset, nreads, projects, session, procs>>

\* updates with the client in place
ToolUpdateTask == UpdateTaskOver(UpdateArgs, {"ok"})

NextUpdate ==
    \/ GetTasks
    \/ ToolUpdateTask

SpecUpdate == Init /\ [][NextUpdate]_vars

-----------------------------------------------------------------------------
(* Creation.  A payload is the dict passed to client.task.create; a key    *)
(* that is not in the dict is NONE, NoPriority or NoDate.                  *)

EmptyPayload ==
    [title |-> NONE, priority |-> NoPriority, content |-> NONE, projectId |-> NONE,
     startDate |-> NoDate, dueDate |-> NoDate, timeZone |-> NONE]

\* client.task.builder: the fields it is given, the dates encoded for the zone
builder(args) ==
    [args EXCEPT
        !.startDate = IF @.kind = "ts"
                      THEN convert_date_to_tick_tick_format(@, args.timeZone) ELSE @,
        !.dueDate = IF @.kind = "ts"
                    THEN convert_date_to_tick_tick_format(@, args.timeZone) ELSE @]

\* TickTickAdapter.create_task(title, **kwargs) as the tools call it:
\* project_id is not passed, kwargs holds priority and, when not NONE,
\* content and projectId
create_task(title, kwargs) ==
    LET local_task == builder([EmptyPayload EXCEPT !.title = title])
    IN  [local_task EXCEPT
            !.title = title,
            !.priority = kwargs.priority,
            !.content = IF kwargs.content # NONE THEN kwargs.content ELSE @,
            !.projectId = IF kwargs.projectId # NONE THEN kwargs.projectId ELSE @]

\* TickTickAdapter.create_task_with_dates: the builder arguments
create_task_with_dates(title, project_id, content, start_date, due_date, priority, timezone) ==
    builder([EmptyPayload EXCEPT
        !.title = title,
        !.startDate = IF start_date.kind = "ts" THEN start_date ELSE @,
        !.dueDate = IF due_date.kind = "ts" THEN due_date ELSE @,
        !.timeZone = IF Truthy(timezone) THEN timezone ELSE @,
        !.projectId = IF Truthy(project_id) THEN project_id ELSE @,
        !.content = IF Truthy(content) THEN content ELSE @,
        !.priority = IF priority # 0 THEN priority ELSE @])

\* tools.tasks.create_task with dates taking the date-aware path only when
\* one of them parses
tools_create_task_parsed_only(a, uz) ==
    IF parse_date_arg(a.start_date) # NoDate \/ parse_date_arg(a.due_date) # NoDate
    THEN [path |-> "create_task_with_dates",
          payload |-> create_task_with_dates(a.title, a.project_id, a.content,
                          parse_date_arg(a.start_date), parse_date_arg(a.due_date),
                          a.priority, user_timezone(uz))]
    ELSE [path |-> "create_task",
          payload |-> create_task(a.title,
                          [priority |-> a.priority, content |-> a.content,
                           projectId |-> a.project_id])]

\* tools.tasks.create_task: the adapter method used and the payload created
tools_create_task(a, uz) ==
    IF DatesSupplied(a)
    THEN [path |-> "create_task_with_dates",
          payload |-> create_task_with_dates(a.title, a.project_id, a.content,
                          parse_date_arg(a.start_date), parse_date_arg(a.due_date),
                          a.priority, user_timezone(uz))]
    ELSE [path |-> "create_task",
          payload |-> create_task(a.title,
                          [priority |-> a.priority, content |-> a.content,
                           projectId |-> a.project_id])]

\* the task the provider returns for a created payload
ClientCreate(i, p) ==
    LET stored(x) == IF x.kind = "ts" THEN [x EXCEPT !.ms = TRUE] ELSE x
    IN  [id |-> i,
         title |-> p.title,
         content |-> p.content,
         priority |-> IF p.priority = NoPriority THEN 0 ELSE p.priority,
         projectId |-> IF p.projectId = NONE THEN "inbox" ELSE p.projectId,
         status |-> 0,
         startDate |-> stored(p.startDate),
         dueDate |-> stored(p.dueDate),
         modifiedTime |-> ServerTime(1, 9),
         createdTime |-> ServerTime(1, 9),
         timeZone |-> IF p.timeZone = NONE THEN "" ELSE p.timeZone]

CreateArgs ==
    [title : {"T"}, project_id : {NONE, "", "p1"}, content : {NONE, "", "C"},
     priority : {0, 5}, start_date : DateArgs, due_date : DateArgs]

\* The calls explored: every combination of arguments with a builder and a
\* create that succeed and an account without zone; a failing call, a
\* missing client, an account zone and every write after the first of a run
\* (n > 0) go with calls that pass neither project nor content.
CreateArgsExplored(a, n) ==
    n > 0 => a.project_id = NONE /\ a.content = NONE /\ a.priority = 0

CreateExplored(a, b, c, uz, cl, n) ==
    /\ (cl # "ok" => b = "raise" /\ uz = "")
    /\ CreateArgsExplored(a, n)
    /\ (b = "raise" => c = "ok")
    /\ (~DatesSupplied(a) => uz = "")
    /\ ((b = "raise" \/ c = "raise" \/ uz # "") => a.project_id = NONE /\ a.content = NONE)

\* the calls of create_task and create_task_with_dates (lines 213-216 and
\* 257-260): client.task.builder, then client.task.create with what it built
create_calls(cl, b, c) ==
    IF cl = "raise" THEN <<>>
    ELSE IF b = "raise" THEN <<Call("builder", "-", "raise")>>
    ELSE <<Call("builder", "-", "ok"), Call("create", "obj", c)>>

CreateTaskOver(args, clients) ==
    /\ nwrites < MaxWrites
    /\ nwrites' = nwrites + 1
    /\ \E a \in {x \in args : CreateArgsExplored(x, nwrites)},
          cl \in clients, b \in CallOutcomes, c \in CallOutcomes, uz \in AccountZones :
        /\ CreateExplored(a, b, c, uz, cl, nwrites)
        /\ LET r == tools_create_task(a, uz)
               new == NumTasks + nwrites + 1
               created == ClientCreate(new, r.payload)
               calls == create_calls(cl, b, c)
               done == Len(calls) = 2 /\ c = "ok"
           IN  /\ last' = Observe("create_task", a, calls,
                                  IF done THEN "ok" ELSE "Error", NoTask, r.payload)
                            @@ [client |-> cl, path |-> r.path, zone |-> user_timezone(uz)]
               /\ cache' = IF done THEN cache @@ (new :> created) ELSE cache
               /\ remote' = IF done THEN remote @@ (new :> created) ELSE remote
    /\ UNCHANGED <<sysOffset, nreads, projects, session, procs>>

\* creates with the client in place
ToolCreateTask == CreateTaskOver(CreateArgs, {"ok"})

NextCreate ==
    \/ ToolCreateTask
    \/ GetTasks

SpecCreate == Init /\ [][NextCreate]_vars

-----------------------------------------------------------------------------
(* Projects (tools/projects.py).  c1 and c2 are the outcomes of the first  *)
(* and of the second client.project.create, d that of project.delete.      *)

ProjectNames == {"p1", "p2"}

\* colours a caller passes: none, a hex value, a name, an unknown word
ColorArgs == {NONE, "#FF6161", "red", "crimson"}

\* helpers.normalize_color: a #RRGGBB value lower-cased, a known name mapped
\* to its hex value, anything else None
normalize_color(color) ==
    IF color = "#FF6161" THEN "#ff6161"
    ELSE IF color = "red" THEN "#FF6161"
    ELSE NONE

\* create_project with a create that fails with a colour not tried again
tools_create_project_no_retry(name, color, cl, c1, c2) ==
    IF cl = "raise" THEN EnsureClientRaised
    ELSE IF cl = "ok" /\ name \in projects THEN [calls |-> <<>>, result |-> "existing"]
    ELSE IF normalize_color(color) = NONE
    THEN [calls |-> <<Call("project.create", "name", c1)>>,
          result |-> IF c1 = "ok" THEN "ok" ELSE "Error"]
    ELSE [calls |-> <<Call("project.create", "name+color", c1)>>,
          result |-> IF c1 = "ok" THEN "ok" ELSE "Error"]

\* tools.projects.create_project (lines 47-85)
tools_create_project(name, color, cl, c1, c2) ==
    IF cl = "raise" THEN EnsureClientRaised
    ELSE IF cl = "ok" /\ name \in projects THEN [calls |-> <<>>, result |-> "existing"]
    ELSE IF normalize_color(color) = NONE
    THEN [calls |-> <<Call("project.create", "name", c1)>>,
          result |-> IF c1 = "ok" THEN "ok" ELSE "Error"]
    ELSE IF c1 = "ok"
    THEN [calls |-> <<Call("project.create", "name+color", "ok")>>, result |-> "ok"]
    ELSE [calls |-> <<Call("project.create", "name+color", "raise"),
                      Call("project.create", "name", c2)>>,
          result |-> IF c2 = "ok" THEN "ok" ELSE "Error"]

CreateProject ==
    /\ nwrites < MaxWrites
    /\ nwrites' = nwrites + 1
    /\ \E name \in ProjectNames, color \in ColorArgs, cl \in ClientStates,
       c1 \in CallOutcomes, c2 \in CallOutcomes :
        /\ (cl # "ok" => c1 = "raise" /\ c2 = "raise")
        /\ (c1 = "ok" => c2 = "ok")
        /\ LET r == tools_create_project(name, color, cl, c1, c2)
           IN  /\ last' = Observe("create_project", [name |-> name, color |-> color],
                                  r.calls, r.result, NoTask, NoTask) @@ [client |-> cl]
               /\ projects' = IF r.result = "ok" THEN projects \cup {name} ELSE projects
        /\ UNCHANGED <<cache, remote, sysOffset, nreads, session, procs>>

\* tools.projects.delete_project (lines 88-100)
tools_delete_project(cl, d) ==
    IF cl = "raise" THEN EnsureClientRaised
    ELSE [calls |-> <<Call("project.delete", "id", d)>>,
          result |-> IF d = "ok" THEN "ok" ELSE "Error"]

\* the tasks of a deleted project are left to the provider: the snapshot
\* keeps them until the next sync
DeleteProject ==
    /\ nwrites < MaxWrites
    /\ nwrites' = nwrites + 1
    /\ \E name \in ProjectNames, cl \in ClientStates, d \in CallOutcomes :
        /\ (cl # "ok" => d = "raise")
        /\ LET r == tools_delete_project(cl, d)
           IN  /\ last' = Observe("delete_project", [project_id |-> name],
                                  r.calls, r.result, NoTask, NoTask) @@ [client |-> cl]
               /\ projects' = IF r.result = "ok" THEN projects \ {name} ELSE projects
        /\ UNCHANGED <<cache, remote, sysOffset, nreads, session, procs>>

\* update and create calls that pass dates only, with and without a client:
\* what the handlers do with a failing call does not depend on the plain
\* fields
UpdateTaskDatesOnly == UpdateTaskOver({a \in UpdateArgs : ~BasicSupplied(a)}, ClientStates)

CreateTaskDatesOnly ==
    CreateTaskOver({a \in CreateArgs : a.project_id = NONE /\ a.content = NONE /\ a.priority = 0},
                   ClientStates)

NextWrites ==
    \/ AdapterDeleteTask
    \/ ToolDeleteTask
    \/ CompleteTask
    \/ UpdateTaskDatesOnly
    \/ CreateTaskDatesOnly
    \/ CreateProject
    \/ DeleteProject

SpecWrites == Init /\ [][NextWrites]_vars

-----------------------------------------------------------------------------
(* The list, search and filter operations: the adapter method, which       *)
(* returns [] on any exception, and the tool around it, which converts     *)
(* the listed tasks for display.                                           *)

\* str.lower() of the titles, contents and queries in use
Lower(x) == IF x = "T1" THEN "t1" ELSE IF x = "C1" THEN "c1" ELSE x

\* "sub in text" for those strings
Contains(sub, text) == sub = "" \/ sub = text \/ (sub = "1" /\ text \in {"t1", "c1"})

\* task.get(key, "") of a title or content
TextOf(x) == IF x = NONE THEN "" ELSE x

Queries == {"", "T1", "1", "zz"}

\* helpers.search_tasks over the adapter's get_tasks(include_completed=True)
search_tasks(query) ==
    IF query = "" THEN get_tasks(TRUE)
    ELSE {i \in get_tasks(TRUE) :
            \/ Contains(Lower(query), Lower(TextOf(cache[i].title)))
            \/ Contains(Lower(query), Lower(TextOf(cache[i].content)))}

get_tasks_by_priority(priority) == {i \in DOMAIN cache : cache[i].priority = priority}

get_tasks_due_today(uz, now) ==
    {i \in DOMAIN cache : is_task_due_today(cache[i], uz, now, sysOffset) = "True"}

get_overdue_tasks(uz, now) ==
    {i \in DOMAIN cache : is_task_overdue(cache[i], uz, now, sysOffset) = "True"}

\* an exception of the classification leaves the adapter's loop
DueTodayRaises(uz, now) ==
    \E i \in DOMAIN cache : is_task_due_today(cache[i], uz, now, sysOffset) = "Raise"

OverdueRaises(uz, now) ==
    \E i \in DOMAIN cache : is_task_overdue(cache[i], uz, now, sysOffset) = "Raise"

\* the snapshot holds no separate list of completed tasks to merge
get_project_tasks(project_id, include_completed) ==
    {i \in DOMAIN cache :
        /\ cache[i].projectId = project_id
        /\ (include_completed \/ cache[i].status # COMPLETED_STATUS)}

ToolGetTasks == GetTasksWith(ClientStates)

ToolSearchTasks ==
    /\ nreads < MaxReads
    /\ nreads' = nreads + 1
    /\ \E query \in Queries, cl \in ClientStates :
          ReadTool("search_tasks", [query |-> query], cl, search_tasks(query), FALSE, FALSE)
    /\ UNCHANGED <<remote, sysOffset, nwrites, projects, session, procs>>

ToolGetTasksByPriority ==
    /\ nreads < MaxReads
    /\ nreads' = nreads + 1
    /\ \E priority \in {0, 3}, cl \in ClientStates :
          ReadTool("get_tasks_by_priority", [priority |-> priority], cl,
                   get_tasks_by_priority(priority), FALSE, FALSE)
    /\ UNCHANGED <<remote, sysOffset, nwrites, projects, session, procs>>

ToolGetTasksDueToday ==
    /\ nreads < MaxReads
    /\ nreads' = nreads + 1
    /\ \E uz \in AccountZones, now \in Nows, cl \in ClientStates :
          /\ (cl # "ok" => uz = "")
          /\ ReadTool("get_tasks_due_today", [zone |-> uz, now |-> now], cl,
                      get_tasks_due_today(uz, now), DueTodayRaises(uz, now), FALSE)
    /\ UNCHANGED <<remote, sysOffset, nwrites, projects, session, procs>>

ToolGetOverdueTasks ==
    /\ nreads < MaxReads
    /\ nreads' = nreads + 1
    /\ \E uz \in AccountZones, now \in Nows, cl \in ClientStates :
          /\ (cl # "ok" => uz = "")
          /\ ReadTool("get_overdue_tasks", [zone |-> uz, now |-> now], cl,
                      get_overdue_tasks(uz, now), OverdueRaises(uz, now), FALSE)
    /\ UNCHANGED <<remote, sysOffset, nwrites, projects, session, procs>>

ToolGetProjectTasks ==
    /\ nreads < MaxReads
    /\ nreads' = nreads + 1
    /\ \E project_id \in ProjectNames, include_completed \in BOOLEAN, cl \in ClientStates :
          ReadTool("get_project_tasks",
                   [project_id |-> project_id, include_completed |-> include_completed], cl,
                   get_project_tasks(project_id, include_completed), FALSE, TRUE)
    /\ UNCHANGED <<remote, sysOffset, nwrites, projects, session, procs>>

\* tools.projects.get_projects: the adapter's list, not converted
ToolGetProjects ==
    /\ nreads < MaxReads
    /\ nreads' = nreads + 1
    /\ \E cl \in ClientStates :
          LET listed == IF cl = "ok" THEN projects ELSE {}
          IN  last' = Observe("get_projects", [task_id |-> 0], <<>>, "list", NoTask, NoTask)
                       @@ [client |-> cl, adapter |-> listed, ids |-> listed,
                           failed |-> (cl # "ok")]
    /\ UNCHANGED <<cache, remote, sysOffset, nwrites, projects, session, procs>>

InitRead ==
    /\ \E f \in [TaskIds -> ReadVariants] :
          /\ remote = [i \in TaskIds |-> SampleTask(i, f[i])]
          /\ cache = remote
    /\ sysOffset \in {0, 8}
    /\ nreads = 0
    /\ nwrites = 0
    /\ projects = {"p1"}
    /\ session = NoSession
    /\ procs = <<>>
    /\ last = Observe("init", [task_id |-> 0], <<>>, "-", NoTask, NoTask) @@ [client |-> "ok"]

NextRead ==
    \/ ToolGetTasks
    \/ ToolSearchTasks
    \/ ToolGetTasksByPriority
    \/ ToolGetTasksDueToday
    \/ ToolGetOverdueTasks
    \/ ToolGetProjectTasks
    \/ ToolGetProjects

SpecRead == InitRead /\ [][NextRead]_vars

-----------------------------------------------------------------------------
(* The functions of timezone_utils applied to drawn inputs *)

\* due dates: absent, not a date, the provider's UTC form, the same instant
\* written with an offset, a naive string, the last hour of the last day
DueDates ==
    {NoDate, BadDate(""), ServerTime(1, 18), TimeStr(2, 2, FALSE, "+08:00"),
     TimeStr(1, 20, FALSE, ""), ServerTime(LastDay, 23)}

TaskZones == {"", "Asia/Shanghai"}

\* reference zones: none, two IANA names, a name pytz does not know
RefZones == {"", "UTC", "Asia/Shanghai", "Mars/Phobos"}

TimeTasks ==
    {[SampleTask(1, 1) EXCEPT !.dueDate = due, !.status = st, !.timeZone = tz] :
        due \in DueDates, st \in {0, COMPLETED_STATUS}, tz \in TaskZones}

\* strings handed to convert_utc_to_local_time
TimeInputs ==
    {BadDate(""), BadDate("Z"), BadDate("+0000"), ServerTime(1, 18),
     TimeStr(1, 18, FALSE, "Z"), TimeStr(2, 2, FALSE, "+08:00"), TimeStr(1, 20, FALSE, ""),
     ServerTime(LastDay, 23)}

\* is_task_due_today and is_task_overdue on one task, for the same zone and
\* instant; others holds the pair of results for the tasks that differ from
\* it in timeZone only
ClassifyTask ==
    \E tid \in DOMAIN cache, z \in RefZones, now \in Nows :
        /\ LET task == cache[tid]
               pair(t) == <<is_task_due_today(t, z, now, sysOffset),
                            is_task_overdue(t, z, now, sysOffset)>>
           IN  last' = Observe("classify", [task_id |-> tid, zone |-> z, now |-> now],
                               <<>>, "-", task, NoTask)
                        @@ [client |-> "ok",
                            due_today |-> pair(task)[1],
                            overdue |-> pair(task)[2],
                            others |-> {pair([task EXCEPT !.timeZone = tz]) : tz \in TaskZones}]
        /\ UNCHANGED <<cache, remote, sysOffset, nreads, nwrites, projects, session, procs>>

ConvertUtcToLocalTime ==
    \E utc_time_str \in TimeInputs, timezone_str \in RefZones \cup {" "} :
        /\ last' = Observe("convert_utc_to_local_time",
                           [utc_time_str |-> utc_time_str, timezone_str |-> timezone_str],
                           <<>>, "-", NoTask, NoTask)
                     @@ [client |-> "ok",
                         returned |-> convert_utc_to_local_time(utc_time_str, timezone_str,
                                                                sysOffset)]
        /\ UNCHANGED <<cache, remote, sysOffset, nreads, nwrites, projects, session, procs>>

\* the functions take one task: the snapshot holds the task they are given
InitTime ==
    /\ cache \in [{1} -> TimeTasks]
    /\ remote = cache
    /\ sysOffset \in {0, 8}
    /\ nreads = 0
    /\ nwrites = 0
    /\ projects = {"p1"}
    /\ session = NoSession
    /\ procs = <<>>
    /\ last = Observe("init", [task_id |-> 0], <<>>, "-", NoTask, NoTask) @@ [client |-> "ok"]

NextTime ==
    \/ ClassifyTask
    \/ ConvertUtcToLocalTime

SpecTime == InitTime /\ [][NextTime]_vars

-----------------------------------------------------------------------------
(* Login, logout and the tools of server.py, which run their                *)
(* implementation only when ensure_authenticated() holds.                  *)

Users == {"alice", "bob"}

\* the tools of server.py that start with ensure_authenticated()
GuardedTools ==
    {"get_projects", "get_project", "create_project", "delete_project",
     "get_project_tasks", "get_tasks", "create_task", "update_task", "delete_task",
     "complete_task", "search_tasks", "get_tasks_by_priority", "get_tasks_due_today",
     "get_overdue_tasks"}

\* TickTickAuth.is_authenticated: the credentials file says so
is_authenticated(creds) == creds # NONE

\* as ensure_authenticated, with a failed login from the environment let
\* through
ensure_authenticated_failure_passes(creds, environ, a) ==
    IF is_authenticated(creds) THEN [ok |-> TRUE, creds |-> creds]
    ELSE IF environ # NONE
         THEN IF a THEN [ok |-> TRUE, creds |-> environ] ELSE [ok |-> TRUE, creds |-> creds]
         ELSE [ok |-> FALSE, creds |-> creds]

\* ensure_authenticated: a holds when the login it attempts with the
\* environment's user succeeds; authenticate() then saves the credentials
ensure_authenticated(creds, environ, a) ==
    IF is_authenticated(creds) THEN [ok |-> TRUE, creds |-> creds]
    ELSE IF environ # NONE
         THEN IF a THEN [ok |-> TRUE, creds |-> environ] ELSE [ok |-> FALSE, creds |-> creds]
         ELSE [ok |-> FALSE, creds |-> creds]

\* TickTickAdapter._initialize_client: c holds when auth.get_client() builds
\* and syncs the client; "raise" when it does not
initialize_client(creds, c) ==
    IF is_authenticated(creds) THEN (IF c THEN creds ELSE "raise") ELSE "none"

\* get_client() followed by _ensure_client(): the client the call works
\* with.  The singleton is built on the first call; a client is built only
\* while the adapter holds none
adapter_client(adapter, creds, c) ==
    IF adapter \in {"absent", "none"} THEN initialize_client(creds, c) ELSE adapter

\* the singleton after the call: lru_cache keeps no adapter whose
\* construction raised; a failed _initialize_client leaves client None
adapter_after(adapter, client) ==
    IF client = "raise" THEN adapter ELSE client

AuthLogin ==
    \E username \in Users, ok \in BOOLEAN :
        /\ session' = [session EXCEPT
                !.creds = IF ok THEN username ELSE @,
                !.loggedOut = FALSE,
                !.relogged = IF ok THEN session.loggedOut /\ session.outUser # NONE
                                        /\ username # session.outUser
                             ELSE @,
                !.loginUser = IF ok THEN username ELSE @]
        /\ last' = Observe("auth_login", [username |-> username], <<>>,
                           IF ok THEN "success" ELSE "failure", NoTask, NoTask)
                     @@ [client |-> "ok"]
        /\ UNCHANGED <<cache, remote, sysOffset, nreads, nwrites, projects, procs>>

\* TickTickAuth.logout: "done", "unlink" (removing the file raised) or
\* "set_key" (the file is gone and writing .env raised)
AuthLogout ==
    \E how \in {"done", "unlink", "set_key"} :
        /\ session' = [session EXCEPT
                !.creds = IF how = "unlink" THEN @ ELSE NONE,
                !.loggedOut = IF how = "done" THEN TRUE ELSE @,
                !.outUser = IF how = "done" THEN session.creds ELSE @,
                !.relogged = IF how = "done" THEN FALSE ELSE @]
        /\ last' = Observe("auth_logout", [task_id |-> 0], <<>>,
                           IF how = "done" THEN "success" ELSE "failure", NoTask, NoTask)
                     @@ [client |-> "ok"]
        /\ UNCHANGED <<cache, remote, sysOffset, nreads, nwrites, projects, procs>>

\* One guarded tool of server.py.  The observation keeps whether the
\* implementation was reached and the user whose client it worked with.
ServerTool ==
    \E op \in GuardedTools, a \in BOOLEAN, c \in BOOLEAN :
        LET e == ensure_authenticated(session.creds, session.environ, a)
            client == adapter_client(session.adapter, e.creds, c)
        IN  /\ (is_authenticated(session.creds) \/ session.environ = NONE => a)
            /\ (~e.ok \/ session.adapter \notin {"absent", "none"} => c)
            /\ session' = [session EXCEPT
                    !.creds = e.creds,
                    !.adapter = IF e.ok THEN adapter_after(@, client) ELSE @]
            /\ last' = Observe(op, [task_id |-> 0], <<>>,
                               IF e.ok THEN "implementation" ELSE "Not authenticated",
                               NoTask, NoTask)
                         @@ [client |-> IF ~e.ok THEN "-" ELSE client,
                             creds |-> e.creds]
            /\ UNCHANGED <<cache, remote, sysOffset, nreads, nwrites, projects, procs>>

\* the process starts with whatever an earlier run left in the credentials
\* file and whatever its environment holds; no adapter is built yet
InitAuth ==
    /\ cache = [i \in TaskIds |-> SampleTask(i, 1)]
    /\ remote = cache
    /\ sysOffset = 0
    /\ nreads = 0
    /\ nwrites = 0
    /\ projects = {"p1"}
    /\ \E creds \in Users \cup {NONE}, environ \in Users \cup {NONE} :
          session = [NoSession EXCEPT !.creds = creds, !.environ = environ]
    /\ procs = <<>>
    /\ last = Observe("init", [task_id |-> 0], <<>>, "-", NoTask, NoTask) @@ [client |-> "ok"]

NextAuth ==
    \/ AuthLogin
    \/ AuthLogout
    \/ ServerTool

SpecAuth == InitAuth /\ [][NextAuth]_vars

-----------------------------------------------------------------------------
(* Calls in progress.  The adapter holds no lock and every caller works    *)
(* with the client of the get_client() singleton, so the calls of two      *)
(* callers interleave at each client call and each assignment to the       *)
(* fetched dict.  procs[p] is the call of caller p: where it stands, its   *)
(* arguments, the client calls it made and how it ended.                   *)

Callers == {1, 2}

Idle ==
    [pc |-> "idle", tid |-> 0, pid |-> NONE, title |-> NONE, obj |-> "-", calls |-> <<>>,
     result |-> "-"]

Titles == {"Ta", "Tb"}

\* caller p moves to pc after the client call c (<<>> when it made none)
Moved(p, pc, c, result) ==
    [procs EXCEPT ![p] = [@ EXCEPT !.pc = pc, !.calls = @ \o c, !.result = result]]

\* update_task(task_id, title=...) is entered (client.py:276)
BeginUpdate(p) ==
    /\ procs[p].pc = "idle"
    /\ \E tid \in TaskIds, title \in Titles :
          procs' = [procs EXCEPT ![p] = [Idle EXCEPT !.pc = "fetch", !.tid = tid, !.title = title]]
    /\ UNCHANGED <<cache, remote, sysOffset, nreads, nwrites, projects, session, last>>

\* client.get_by_id(task_id) and the test of its result (lines 278-286)
UpdateFetch(p) ==
    /\ procs[p].pc = "fetch"
    /\ \E f \in FetchOutcomes :
          /\ FetchPossible(f, procs[p].tid)
          /\ procs' = Moved(p, IF f = "task" THEN "apply" ELSE "done",
                            <<Call("get_by_id", "id", f)>>,
                            IF f = "raise" THEN "Error"
                            ELSE IF FetchFalsy(f) THEN "NotFound" ELSE "-")
    /\ UNCHANGED <<cache, remote, sysOffset, nreads, nwrites, projects, session, last>>

\* task.update(kwargs) on the dict get_by_id handed out (line 289)
UpdateApply(p) ==
    /\ procs[p].pc = "apply"
    /\ cache' = [cache EXCEPT ![procs[p].tid].title = procs[p].title]
    /\ procs' = Moved(p, "write", <<>>, "-")
    /\ UNCHANGED <<remote, sysOffset, nreads, nwrites, projects, session, last>>

\* as update_result, with a write that carries another title than the
\* caller's own reported as a failure
update_result_detects_overwrite(u, task, title) ==
    IF u = "ok" /\ task.title = title THEN "ok" ELSE "Error"

\* how update_task ends after client.task.update(task) (lines 293-301)
update_result(u, task, title) == IF u = "ok" THEN "ok" ELSE "Error"

\* client.task.update(task): the dict goes out as it is at that moment
UpdateWrite(p) ==
    /\ procs[p].pc = "write"
    /\ \E u \in CallOutcomes :
          /\ remote' = IF u = "ok" THEN [remote EXCEPT ![procs[p].tid] = cache[procs[p].tid]]
                        ELSE remote
          /\ procs' = Moved(p, "done", <<Call("update", "obj", u)>>,
                            update_result(u, cache[procs[p].tid], procs[p].title))
    /\ UNCHANGED <<cache, sysOffset, nreads, nwrites, projects, session, last>>

\* the next step of the update of caller p
UpdateStep(p) == UpdateFetch(p) \/ UpdateApply(p) \/ UpdateWrite(p)

InitConc ==
    /\ \E f \in [TaskIds -> Variants] :
          /\ remote = [i \in TaskIds |-> SampleTask(i, f[i])]
          /\ cache = remote
    /\ sysOffset \in {0, 8}
    /\ nreads = 0
    /\ nwrites = 0
    /\ projects = {"p1"}
    /\ session = NoSession
    /\ procs = [p \in Callers |-> Idle]
    /\ last = Observe("init", [task_id |-> 0], <<>>, "-", NoTask, NoTask) @@ [client |-> "ok"]

NextConcUpdate ==
    \E p \in Callers :
        \/ BeginUpdate(p)
        \/ UpdateFetch(p)
        \/ UpdateApply(p)
        \/ UpdateWrite(p)

SpecConcUpdate == InitConc /\ [][NextConcUpdate]_vars

-----------------------------------------------------------------------------
(* delete_task of two callers, with a provider that deletes a task it      *)
(* holds and rejects the delete of one it does not hold, a sync that       *)
(* always succeeds and a get_by_id that answers from the snapshot.         *)

\* get_by_id: the task the snapshot holds, else None or {} (the client
\* reports a missing task in either way)
SnapshotFetch(i) == IF i \in DOMAIN cache THEN {"task"} ELSE {"none", "empty"}

\* client.task.delete of task i passed as form "id" or as the object obj
ProviderDeletes(i, obj) == obj # "empty" /\ i \in DOMAIN remote

\* delete_task(project_id, task_id) is entered; the tool passes no project
\* id (tools/tasks.py:191-204).  "if not project_id" decides on the
\* pre-fetch (client.py:373-377)
BeginDelete(p) ==
    /\ procs[p].pc = "idle"
    /\ \E tid \in TaskIds, pid \in ProjectIdArgs :
          procs' = [procs EXCEPT ![p] =
                        [Idle EXCEPT !.pc = IF Truthy(pid) THEN "delete" ELSE "prefetch",
                                     !.tid = tid, !.pid = pid]]
    /\ UNCHANGED <<cache, remote, sysOffset, nreads, nwrites, projects, session, last>>

\* the pre-fetch and "if not prefetch_task" (lines 377-385)
DeletePrefetch(p) ==
    /\ procs[p].pc = "prefetch"
    /\ \E f \in SnapshotFetch(procs[p].tid) :
          procs' = Moved(p, IF FetchFalsy(f) THEN "done" ELSE "delete",
                         <<Call("get_by_id", "id", f)>>,
                         IF FetchFalsy(f) THEN "True" ELSE "-")
    /\ UNCHANGED <<cache, remote, sysOffset, nreads, nwrites, projects, session, last>>

\* client.task.delete(task_id) (lines 393-398 and 442-448)
DeleteById(p) ==
    /\ procs[p].pc = "delete"
    /\ LET i == procs[p].tid
           ok == ProviderDeletes(i, "id")
           st == ClientDelete([cache |-> cache, remote |-> remote], i)
       IN  /\ cache' = IF ok THEN st.cache ELSE cache
           /\ remote' = IF ok THEN st.remote ELSE remote
           /\ procs' = Moved(p, IF ok THEN "done" ELSE "sync",
                             <<Call("delete", "id", IF ok THEN "ok" ELSE "raise")>>,
                             IF ok THEN "True" ELSE "-")
    /\ UNCHANGED <<sysOffset, nreads, nwrites, projects, session, last>>

\* client.sync() of the fallback (lines 401-407)
DeleteSync(p) ==
    /\ procs[p].pc = "sync"
    /\ cache' = ClientSync([cache |-> cache, remote |-> remote]).cache
    /\ procs' = Moved(p, "refetch", <<Call("sync", "-", "ok")>>, "-")
    /\ UNCHANGED <<remote, sysOffset, nreads, nwrites, projects, session, last>>

\* the re-fetch and "if task_obj is None" (lines 409-427)
DeleteRefetch(p) ==
    /\ procs[p].pc = "refetch"
    /\ \E f \in SnapshotFetch(procs[p].tid) :
          procs' = [Moved(p, IF f = "none" THEN "done" ELSE "delete_obj",
                          <<Call("get_by_id", "id", f)>>,
                          IF f = "none" THEN "True" ELSE "-")
                        EXCEPT ![p].obj = f]
    /\ UNCHANGED <<cache, remote, sysOffset, nreads, nwrites, projects, session, last>>

\* client.task.delete(task_obj) (lines 429-438)
DeleteByObject(p) ==
    /\ procs[p].pc = "delete_obj"
    /\ LET i == procs[p].tid
           ok == ProviderDeletes(i, procs[p].obj)
           st == ClientDelete([cache |-> cache, remote |-> remote], i)
       IN  /\ cache' = IF ok THEN st.cache ELSE cache
           /\ remote' = IF ok THEN st.remote ELSE remote
           /\ procs' = Moved(p, "done",
                             <<Call("delete", "obj", IF ok THEN "ok" ELSE "raise")>>,
                             IF ok THEN "True" ELSE "Error")
    /\ UNCHANGED <<sysOffset, nreads, nwrites, projects, session, last>>

NextConcDelete ==
    \E p \in Callers :
        \/ BeginDelete(p)
        \/ DeletePrefetch(p)
        \/ DeleteById(p)
        \/ DeleteSync(p)
        \/ DeleteRefetch(p)
        \/ DeleteByObject(p)

SpecConcDelete == InitConc /\ [][NextConcDelete]_vars

-----------------------------------------------------------------------------
(* Claims about delete_task and complete_task *)

IsDelete == last.op \in {"delete_task", "tools.delete_task"}

Calls == last.calls
CallIdx == 1..Len(Calls)

DeleteCalls == {k \in CallIdx : Calls[k].fn = "delete"}
ObjectDeletes == {k \in DeleteCalls : Calls[k].form = "obj"}

\* the pre-fetch of a delete_task call without project id found nothing
PrefetchFoundNothing ==
    /\ IsDelete
    /\ ~Truthy(last.args.project_id)
    /\ Calls # <<>>
    /\ Calls[1].fn = "get_by_id"
    /\ FetchFalsy(Calls[1].out)

RefetchFoundTask ==
    {j \in CallIdx :
        /\ Calls[j] = Call("get_by_id", "id", "task")
        /\ \E k \in 1..(j - 1) : Calls[k] = Call("delete", "id", "raise")}

\* C2: when delete by id raises, the re-fetch is made whatever the resync
\* did (succeeded, raised, or no sync method); when it returns the task the
\* delete is retried with the task object, and if the retry succeeds the
\* call returns True with exactly one object-form delete
C2_ObjectRetryAfterFailedDelete ==
    IsDelete =>
        /\ \A k \in CallIdx :
              Calls[k] = Call("delete", "id", "raise") =>
                  \E j \in (k + 1)..Len(Calls) :
                      /\ Calls[j].fn = "get_by_id"
                      /\ \A i \in (k + 1)..(j - 1) : Calls[i].fn = "sync"
        /\ \A j \in RefetchFoundTask :
              /\ j < Len(Calls)
              /\ Calls[j + 1].fn = "delete" /\ Calls[j + 1].form = "obj"
              /\ (Calls[j + 1].out = "ok" =>
                      last.result = "True" /\ Cardinality(ObjectDeletes) = 1)

C2_Witness ==
    /\ IsDelete
    /\ \E j \in RefetchFoundTask :
          /\ Calls[j - 1] = Call("sync", "-", "raise")
          /\ j < Len(Calls)
          /\ Calls[j + 1] = Call("delete", "obj", "ok")
    /\ last.result = "True"

\* C3: when delete by id raises, the re-fetch finds the task and the delete
\* by object raises too, the exception propagates and that delete is the
\* last call made on the provider
C3_SecondFailurePropagates ==
    IsDelete =>
        \A j \in RefetchFoundTask :
            (j < Len(Calls) /\ Calls[j + 1] = Call("delete", "obj", "raise")) =>
                /\ last.result = "Error"
                /\ Len(Calls) = j + 1
                /\ Cardinality(DeleteCalls) = 2

C3_Witness ==
    /\ IsDelete
    /\ last.result = "Error"
    /\ \E j \in RefetchFoundTask :
          j < Len(Calls) /\ Calls[j + 1] = Call("delete", "obj", "raise")

\* C4: delete_task returns True only if a provider delete succeeded or a
\* get_by_id reported the task absent during the call
C4_TrueOnlyAfterDeleteOrAbsence ==
    (IsDelete /\ last.result = "True") =>
        \/ \E k \in DeleteCalls : Calls[k].out = "ok"
        \/ \E k \in CallIdx : Calls[k].fn = "get_by_id" /\ FetchFalsy(Calls[k].out)

CompleteCalls == {k \in CallIdx : Calls[k].fn = "complete"}

\* C5: complete_task calls the provider's complete endpoint only after
\* get_by_id returned a non-empty record, exactly once and with that record;
\* on None or {} it raises not-found and never calls the endpoint
C5_CompleteOnlyFetchedRecord ==
    last.op = "complete_task" =>
        /\ (Calls # <<>> => Calls[1].fn = "get_by_id")
        /\ (CompleteCalls # {} =>
                /\ Calls[1].out = "task"
                /\ CompleteCalls = {2}
                /\ last.written = last.fetched)
        /\ (Calls # <<>> /\ FetchFalsy(Calls[1].out) =>
                last.result = "NotFound" /\ CompleteCalls = {})

C5_Witness ==
    /\ last.op = "complete_task"
    /\ Calls # <<>>
    /\ Calls[1].out = "empty"
    /\ last.result = "NotFound"

-----------------------------------------------------------------------------
(* Claims about update *)

IsUpdate == last.op = "update_task"

UpdateCalls == {k \in CallIdx : Calls[k].fn = "update"}

\* the update reached the write: the record passed to client.task.update
Wrote == IsUpdate /\ UpdateCalls # {}

\* C6: on both update paths get_by_id is called before any write; when it
\* returns None or {} the call raises not-found, does not report success
\* and client.task.update is never called
C6_UpdateNotFoundRaises ==
    IsUpdate =>
        /\ (Calls # <<>> => Calls[1].fn = "get_by_id")
        /\ \A k \in UpdateCalls : k > 1 /\ Calls[1].out = "task"
        /\ (Calls # <<>> /\ FetchFalsy(Calls[1].out) =>
                last.result = "NotFound" /\ UpdateCalls = {})

C6_Witness ==
    /\ IsUpdate
    /\ last.path = "update_task_with_dates"
    /\ Calls # <<>>
    /\ Calls[1].out = "empty"
    /\ last.result = "NotFound"

\* C7: an update that reaches the write applies every field that was
\* passed (not None), priority 0 and the empty string included, on the
\* date-less and on the date-aware path
C7_SuppliedFieldsApplied ==
    Wrote =>
        /\ (last.args.title # NONE => last.written.title = last.args.title)
        /\ (last.args.content # NONE => last.written.content = last.args.content)
        /\ (last.args.priority # NoPriority => last.written.priority = last.args.priority)
        /\ (last.args.project_id # NONE => last.written.projectId = last.args.project_id)

\* C8: an update that reaches the write passes every field that was not
\* supplied with the value the provider last returned for the task
C8_UnsuppliedFieldsAsReturned ==
    (Wrote /\ last.before # NoTask) =>
        /\ (last.args.title = NONE => last.written.title = last.before.title)
        /\ (last.args.content = NONE => last.written.content = last.before.content)
        /\ (last.args.priority = NoPriority => last.written.priority = last.before.priority)
        /\ (last.args.project_id = NONE => last.written.projectId = last.before.projectId)
        /\ (last.args.start_date = NoDate => last.written.startDate = last.before.startDate)
        /\ (last.args.due_date = NoDate => last.written.dueDate = last.before.dueDate)
        /\ (~DatesSupplied(last.args) => last.written.timeZone = last.before.timeZone)
        /\ last.written.status = last.before.status

\* x is an output of the provider's date formatter for zone z
EncodedFor(x, z) ==
    \E d \in 0..4, h \in 0..23 :
        x = convert_date_to_tick_tick_format(TimeStr(d, h, FALSE, ""), z)

\* C9: a date-aware update that passes a start or a due date writes both
\* startDate and dueDate of the record, where present, in the formatter's
\* encoding for the zone, and the zone as timeZone
C9_BothDatesReencoded ==
    (Wrote /\ (last.args.start_date.kind = "ts" \/ last.args.due_date.kind = "ts")) =>
        /\ (last.written.startDate # NoDate => EncodedFor(last.written.startDate, last.zone))
        /\ (last.written.dueDate # NoDate => EncodedFor(last.written.dueDate, last.zone))
        /\ last.written.timeZone = last.zone

-----------------------------------------------------------------------------
(* Claims about create *)

IsCreate == last.op = "create_task"

\* C10: create_task takes the date-aware path, with a zone, exactly when a
\* start or a due date is passed; otherwise it takes the simple path, whose
\* payload holds title and priority, content and projectId exactly when
\* they are passed, and no date and no timeZone
C10_CreatePathByDates ==
    IsCreate =>
        /\ (last.path = "create_task_with_dates" <=> DatesSupplied(last.args))
        /\ (last.path = "create_task_with_dates" =>
                Truthy(last.zone) /\ last.written.timeZone = last.zone)
        /\ (last.path = "create_task" =>
                /\ last.written.title = last.args.title
                /\ last.written.priority = last.args.priority
                /\ last.written.content = last.args.content
                /\ last.written.projectId = last.args.project_id
                /\ last.written.startDate = NoDate
                /\ last.written.dueDate = NoDate
                /\ last.written.timeZone = NONE)

C10_Witness ==
    /\ IsCreate
    /\ last.args.start_date = BadDate("")
    /\ last.args.due_date = NoDate
    /\ last.path = "create_task_with_dates"
    /\ last.written.startDate = NoDate

-----------------------------------------------------------------------------
(* Claims about failures of the write operations *)

IsWrite ==
    last.op \in {"delete_task", "tools.delete_task", "complete_task", "update_task",
                 "create_task", "create_project", "delete_project"}

BadDateSupplied == last.args.start_date.kind = "bad" \/ last.args.due_date.kind = "bad"

\* C11: a create or an update that is passed a start or due date string that
\* cannot be parsed fails, and no call on the remote client is attempted
C11_BadDateRejectedBeforeCalls ==
    ((IsCreate \/ IsUpdate) /\ BadDateSupplied) =>
        last.result = "Error" /\ Calls = <<>>

FailedCalls == {k \in CallIdx : Calls[k].out = "raise"}

\* a failed provider call ends the operation with the error
PropagatesImmediately ==
    \A k \in FailedCalls : k = Len(Calls) /\ last.result = "Error"

\* a failed delete is followed by at most one more delete, by object, and a
\* failed delete by object by nothing
DeleteRetriedOnce ==
    /\ Cardinality(DeleteCalls) <= 2
    /\ \A k \in DeleteCalls :
          /\ (Calls[k].form = "obj" => k = Len(Calls) /\ k > 1)
          /\ (Calls[k].form = "obj" /\ Calls[k].out = "raise" => last.result = "Error")
          /\ \A j \in DeleteCalls : j > k => Calls[k] = Call("delete", "id", "raise")

C14_NoClientWritesRaise ==
    (/\ last.client = "none"
     /\ \/ last.op \in {"create_task", "update_task", "complete_task"}
        \/ (last.op = "delete_task" /\ Truthy(last.args.project_id))) =>
        last.result \in {"Error", "NotFound"}

\* C15: delete_task with an empty project_id whose get_by_id returns None
\* still calls client.task.delete(task_id) exactly once and returns True
C15_AbsentTaskStillDeleted ==
    (/\ last.op = "delete_task"
     /\ last.client = "ok"
     /\ last.args.project_id = ""
     /\ Calls # <<>>
     /\ Calls[1] = Call("get_by_id", "id", "none")) =>
        /\ last.result = "True"
        /\ Cardinality({k \in DeleteCalls : Calls[k].form = "id"}) = 1

-----------------------------------------------------------------------------
(* Claims about the list, search and filter operations *)

IsRead ==
    last.op \in {"get_tasks", "search_tasks", "get_tasks_by_priority", "get_tasks_due_today",
                 "get_overdue_tasks", "get_project_tasks", "get_projects"}

\* C13: a list, search or filter operation never raises, and when
\* something fails inside it (no client, a client that raises, a date
\* field that cannot be handled) both the adapter method and the tool
\* return the empty list
C13_ReadsNeverRaise ==
    IsRead =>
        /\ last.result = "list"
        /\ (last.failed => last.adapter = {} /\ last.ids = {})

-----------------------------------------------------------------------------
(* Claims about the functions of timezone_utils *)

IsClassify == last.op = "classify"

\* C16: is_task_overdue is False for a task with status 2, whatever its
\* dueDate, the reference zone and the current instant
C16_CompletedNeverOverdue ==
    (IsClassify /\ last.fetched.status = COMPLETED_STATUS) => last.overdue = "False"

C16_Witness ==
    /\ IsClassify
    /\ last.fetched.status = COMPLETED_STATUS
    /\ last.fetched.dueDate = ServerTime(1, 18)
    /\ last.args.now = Hours(2, 17)
    /\ last.overdue = "False"

\* C17: for one task, one reference zone and one instant, is_task_due_today
\* and is_task_overdue are never both True
C17_NotDueTodayAndOverdue ==
    IsClassify => ~(last.due_today = "True" /\ last.overdue = "True")

C17_Witness ==
    /\ IsClassify
    /\ last.fetched.status = 0
    /\ last.due_today = "True"
    /\ last.overdue = "False"

\* C18: tasks that differ only in their timeZone field get the same
\* is_task_due_today and is_task_overdue results for the same reference
\* zone and instant
C18_TaskZoneIgnored ==
    IsClassify => last.others = {<<last.due_today, last.overdue>>}

C18_Witness ==
    /\ IsClassify
    /\ last.fetched.timeZone = "Asia/Shanghai"
    /\ last.args.zone = ""
    /\ last.fetched.dueDate = ServerTime(1, 18)
    /\ last.args.now = Hours(1, 17)
    /\ last.due_today = "True"

\* the UTC calendar day of the instant a string with an offset denotes
UtcDay(x) == DayOf(Hours(x.d, x.h) - SuffixOffset(NormalizeSuffix(x).sfx))

\* C19: with an empty or unknown reference zone, the UTC calendar date of
\* the due instant is compared with the current UTC date, for every
\* parsable dueDate that carries an offset, a non-zero one included
C19_FallbackComparesUtcDates ==
    (/\ IsClassify
     /\ last.args.zone \in {"", "Mars/Phobos"}
     /\ last.fetched.dueDate.kind = "ts"
     /\ last.fetched.dueDate.sfx # "") =>
        /\ (last.due_today = "True" <=>
                UtcDay(last.fetched.dueDate) = DayOf(last.args.now))
        /\ (last.fetched.status # COMPLETED_STATUS =>
                (last.overdue = "True" <=>
                    UtcDay(last.fetched.dueDate) < DayOf(last.args.now)))

SuffixOffsetText(sfx) == IF sfx \in {"Z", "+0000"} THEN "+00:00" ELSE sfx

IsConvert == last.op = "convert_utc_to_local_time"

UtcSuffixes == {"Z", "+0000", "+00:00"}

\* the zone name is neither empty nor blank, and pytz does not resolve it
Unresolvable(z) == ZoneGiven(z) /\ z \notin KnownZones

\* "YYYY-MM-DDTHH:MM:SS" of an instant given as hours since day 0
Formatted(t) == TimeStr(DayOf(t), HourOf(t), FALSE, "")

C22_UnknownZoneNormalisedString ==
    (/\ IsConvert
     /\ last.args.utc_time_str.kind = "ts"
     /\ Unresolvable(last.args.timezone_str)) =>
        last.returned = [last.args.utc_time_str EXCEPT !.sfx = SuffixOffsetText(@)]

\* "2025-08-01T16:00:00.000+0000" with "Invalid/Timezone"
C22_Witness ==
    /\ IsConvert
    /\ last.args.utc_time_str = ServerTime(1, 18)
    /\ last.args.timezone_str = "Mars/Phobos"
    /\ last.returned = TimeStr(1, 18, TRUE, "+00:00")

\* C23: for a parsable UTC-encoded timestamp and a resolvable zone, the
\* wall-clock time of that instant in the zone is returned, without offset
\* and with the date rolled over when the offset crosses midnight
C23_ResolvableZoneWallClock ==
    (/\ IsConvert
     /\ last.args.utc_time_str.kind = "ts"
     /\ last.args.utc_time_str.sfx \in UtcSuffixes
     /\ ZoneGiven(last.args.timezone_str)
     /\ last.args.timezone_str \in KnownZones) =>
        last.returned = Formatted(Hours(last.args.utc_time_str.d, last.args.utc_time_str.h)
                                    + ZoneOffset(last.args.timezone_str))

-----------------------------------------------------------------------------
(* Claims about the snapshot, the session and concurrent calls *)

ListOps ==
    {"get_tasks", "search_tasks", "get_tasks_by_priority", "get_tasks_due_today",
     "get_overdue_tasks", "get_project_tasks"}

\* C24: a list-returning operation leaves the startDate, dueDate,
\* modifiedTime and createdTime of every cached task as they were
C24_ListingLeavesSnapshotDates ==
    [][last'.op \in ListOps =>
          \A i \in DOMAIN cache : \A k \in DOMAIN TimeFields :
              cache'[i][TimeFields[k]] = cache[i][TimeFields[k]]]_vars

IsGuardedTool == last.op \in GuardedTools

C30_ClientOfLoggedInUser ==
    (IsGuardedTool /\ session.relogged /\ last.client \in Users) =>
        last.client = session.loginUser

\* C29: when client.task.update raises, the cached record of the task
\* (the record get_by_id handed out) is as it was before the call
C29_FailedUpdateLeavesCachedRecord ==
    (Wrote /\ \E k \in UpdateCalls : Calls[k].out = "raise") =>
        cache[last.args.task_id] = last.fetched

\* the step of delete_task a call belongs to: 1 pre-fetch, 2 delete by id,
\* 3 resync, 4 re-fetch, 5 delete by object
DeleteStep(k) ==
    LET c == Calls[k]
    IN  IF c.fn = "sync" THEN 3
        ELSE IF c.fn = "delete" THEN (IF c.form = "id" THEN 2 ELSE 5)
        ELSE IF \E j \in 1..(k - 1) : Calls[j].fn = "delete" THEN 4
        ELSE 1

\* C27: a delete_task call ends by returning True or by raising; its client
\* calls follow the order pre-fetch, delete by id, resync, re-fetch, delete
\* by object; a call that got its client pre-fetches exactly when no
\* project id is passed; resync, re-fetch and delete by object come only
\* after a failed delete by id; get_by_id is called at most twice, sync at
\* most once and the provider's delete at most twice
C27_DeleteStepsInOrder ==
    IsDelete =>
        /\ last.result \in {"True", "Error"}
        /\ \A j, k \in CallIdx : j < k => DeleteStep(j) < DeleteStep(k)
        /\ (last.client # "raise" =>
                ((Calls # <<>> /\ DeleteStep(1) = 1) <=> ~Truthy(last.args.project_id)))
        /\ \A k \in CallIdx :
                DeleteStep(k) >= 3 => \E j \in 1..(k - 1) : Calls[j] = Call("delete", "id", "raise")
        /\ \A k \in CallIdx : DeleteStep(k) = 5 => k > 1 /\ DeleteStep(k - 1) = 4
        /\ Cardinality({k \in CallIdx : Calls[k].fn = "get_by_id"}) <= 2
        /\ Cardinality({k \in CallIdx : Calls[k].fn = "sync"}) <= 1
        /\ Cardinality(DeleteCalls) <= 2

\* a call without project id that went through all five steps
C27_Witness ==
    /\ IsDelete
    /\ last.args.project_id = NONE
    /\ Len(Calls) = 5
    /\ last.result = "True"

\* the client calls of caller p all did what was asked of them
AllCallsServed(p) ==
    \A k \in DOMAIN procs[p].calls : procs[p].calls[k].out \in {"task", "ok"}

\* C26: two update calls on the same task are not coordinated.  A call in
\* progress can always take its next step, whatever the other call is
\* doing; each call makes its own get_by_id and its own client.task.update;
\* a call whose client calls succeed reports success, also when the record
\* it wrote carries the other call's title or its own title was overwritten
C26_UpdatesNotCoordinated ==
    \A p \in Callers :
        /\ (procs[p].pc \in {"fetch", "apply", "write"} => ENABLED UpdateStep(p))
        /\ (procs[p].pc = "done" =>
                /\ (AllCallsServed(p) => procs[p].result = "ok")
                /\ (procs[p].result = "ok" =>
                        procs[p].calls = <<Call("get_by_id", "id", "task"),
                                           Call("update", "obj", "ok")>>))

\* both calls passed another title for the same task, both reported
\* success, and the provider holds the title of one of them only
C26_Witness ==
    /\ \A p \in Callers : procs[p].pc = "done" /\ procs[p].result = "ok"
    /\ procs[1].tid = procs[2].tid
    /\ procs[1].title # procs[2].title
    /\ remote[procs[1].tid].title = procs[2].title

\* the deletes of task i that the provider carried out, over all callers
Deletions(i) ==
    {<<p, k>> \in Callers \X (1..5) :
        /\ procs[p].tid = i
        /\ k \in DOMAIN procs[p].calls
        /\ procs[p].calls[k].fn = "delete"
        /\ procs[p].calls[k].out = "ok"}

\* C28: two delete_task calls without project id for the same existing
\* task, in any interleaving, both return True (neither raises), and the
\* provider deletes the task at most once
C28_BothDeletesReturnTrue ==
    (\A p \in Callers : procs[p].pc # "idle" /\ ~Truthy(procs[p].pid)) =>
        /\ \A i \in TaskIds : Cardinality(Deletions(i)) <= 1
        /\ \A p \in Callers : procs[p].pc = "done" => procs[p].result = "True"

====
